---- MODULE Spec2Model ----
(***************************************************************************)
(* Model of src/dispatcher.cpp: the priority/retry job dispatcher.         *)
(*                                                                         *)
(* State: the Dispatcher's members (args, pq, completed), the locals of    *)
(* Dispatcher::run that live across loop iterations (successes, failures,  *)
(* the three running sums, wall_start and the job j being executed), the   *)
(* RunRecorder's fields, the two database tables and the steady clock.     *)
(* Timestamps are milliseconds on the steady clock, whose epoch is         *)
(* arbitrary (every formula of the code uses differences only); now is the *)
(* last reading taken. A reading shows at least the time the sleeps since  *)
(* the previous reading account for; lateLeft is the number of ms by which *)
(* the readings of the run may still be later than that, lateSince the     *)
(* number of ms by which the readings after wall_start have been.          *)
(***************************************************************************)
EXTENDS Integers, Sequences, FiniteSets, TLC

VARIABLES args, pc, now, pq, cur, completed, successes, failures,
          total_wait, total_service, total_turn, wall_start,
          rec, jobsTable, runsTable, faultsLeft, lateLeft, lateSince

vars == <<args, pc, now, pq, cur, completed, successes, failures,
          total_wait, total_service, total_turn, wall_start,
          rec, jobsTable, runsTable, faultsLeft, lateLeft, lateSince>>

----------------------------------------------------------------------------
(* Program constants *)

PRIO_MIN == 1
PRIO_MAX == 10
MIN_SERVICE_MS == 30
BACKOFF_BASE_MS == 100
INT_MAX == 2147483647

(* Bounds of the model *)

MaxJobs == 2
MaxRetries == 2
LowMean == 28
LowStddev == 5
MaxLate == 1
SubMs == 500
MaxFaults == 3
WideFaults == 1
LateFaults == 1
BackoffAttempts == 27

----------------------------------------------------------------------------
(* Arithmetic helpers *)

Min(a, b) == IF a < b THEN a ELSE b
Max(a, b) == IF a > b THEN a ELSE b

(* (int)x : conversion of a 64-bit value to a 32-bit int (two's complement) *)
ToInt(x) ==
    IF -INT_MAX - 1 <= x /\ x <= INT_MAX THEN x
    ELSE ((x + INT_MAX + 1) % (2 * (INT_MAX + 1))) - INT_MAX - 1

(* 2 * x in a 32-bit int, wrapping *)
Double32(x) ==
    IF x > INT_MAX \div 2 THEN ((x - INT_MAX) - 1) * 2
    ELSE IF x < -(INT_MAX \div 2) - 1 THEN ((x + INT_MAX) + 1) * 2
    ELSE 2 * x

(* x << n in a 32-bit int, 0 <= n < 32 *)
RECURSIVE Shl(_, _)
Shl(x, n) == IF n <= 0 THEN x ELSE Shl(Double32(x), n - 1)

(* Variant: top() without pop() *)
RemoveAt_Noop(s, i) == s

(* std::priority_queue::pop of the element at position i *)
RemoveAt(s, i) == [k \in 1..(Len(s) - 1) |-> IF k < i THEN s[k] ELSE s[k + 1]]

----------------------------------------------------------------------------
(* Clock *)

(* now_ms(): by how much a reading may be later than the previous reading   *)
(* plus the time slept since                                                *)
Lates == 0..lateLeft

(* The same for a second reading, when the one before it was d late *)
LatesAfter(d) == 0..(lateLeft - d)

(* A std::chrono::duration<double> in seconds, kept exact as whole seconds  *)
(* and microseconds                                                         *)
Seconds(s, us) == [s |-> s, us |-> us]

(* Clock::now() - wall_start, lines 283 and 335-336: neither time point is  *)
(* rounded. t0 and t1 are the milliseconds the two readings fall into and   *)
(* frac_us is what the difference of their positions within the millisecond *)
(* adds to t1 - t0, in microseconds: more than -1000 and less than 1000     *)
Elapsed(t0, t1, frac_us) ==
    LET us == ((t1 % 1000) - (t0 % 1000)) * 1000 + frac_us
    IN  Seconds((t1 \div 1000) - (t0 \div 1000) + (us \div 1000000),
                us % 1000000)

(* The values of frac_us the model draws. The time between the two readings *)
(* is at least the time slept between them, which is t1 - t0 less the late  *)
(* ms: with no reading late the later reading is at least as far into its   *)
(* millisecond as the earlier one, with one late it may be less far         *)
Fracs(late) == IF late > 0 THEN {-SubMs, 0, SubMs} ELSE {0, SubMs}

(* std::max(0.001, seconds) *)
MaxSeconds(e) ==
    IF e.s < 0 \/ (e.s = 0 /\ e.us < 1000) THEN Seconds(0, 1000) ELSE e

----------------------------------------------------------------------------
(* RNG *)

(* RNG::priority: a draw of uniform_int_distribution{1,10}; the model draws *)
(* from the lowest value and the two highest ones.                          *)
PriorityDraws == {PRIO_MIN, PRIO_MAX - 1, PRIO_MAX}

(* RNG::service_ms: round(max(30.0, x)) for a normal draw x *)
ServiceMs(x) == Max(MIN_SERVICE_MS, x)

(* The model draws x one standard deviation below and above the mean *)
ServiceDraws(mean_ms, stddev_ms) ==
    {ServiceMs(mean_ms - stddev_ms), ServiceMs(mean_ms + stddev_ms)}

(* RNG::should_fail: a Bernoulli draw with probability in [0.02, 0.20], so  *)
(* both outcomes are possible at every attempt; faultsLeft caps the number  *)
(* of failures drawn in one run.                                            *)
FailDraws == IF faultsLeft > 0 THEN BOOLEAN ELSE {FALSE}

----------------------------------------------------------------------------
(* Job *)

NoTs == <<>>
NoJob == [ext_id |-> 0]

NewJob == [ext_id |-> 0, priority |-> 0, attempt |-> 0, max_retries |-> 0,
           enqueue_ts |-> 0, start_ts |-> NoTs, end_ts |-> NoTs,
           wait_ms |-> 0, service_ms |-> 0, turnaround_ms |-> 0,
           status |-> "PENDING", fail_reason |-> ""]

(* Variant: ties broken towards the later enqueue *)
JobCmp_LatestFirst(a, b) ==
    IF a.priority # b.priority THEN a.priority < b.priority
    ELSE a.enqueue_ts < b.enqueue_ts

(* JobCmp::operator(): a orders before b, i.e. b is dispatched sooner *)
JobCmp(a, b) ==
    IF a.priority # b.priority THEN a.priority < b.priority
    ELSE a.enqueue_ts > b.enqueue_ts

(* std::priority_queue::top: an element no other element is ordered after;  *)
(* the vector pq holds the pending jobs in the order they were pushed.      *)
IsTop(q, i) == \A k \in 1..Len(q) : ~JobCmp(q[i], q[k])

----------------------------------------------------------------------------
(* Dispatcher *)

(* Variant: the seeding loop stops one job short (i < args.jobs) *)
seed_jobs_SkipsLast(t0, prios, a) ==
    [i \in 1..(a.jobs - 1) |->
        [NewJob EXCEPT !.ext_id = i,
                       !.priority = prios[i],
                       !.max_retries = a.max_retries,
                       !.enqueue_ts = t0 + i]]

(* Dispatcher::seed_jobs: jobs 1..n, pushed in that order, stamped t0 + i *)
seed_jobs(t0, prios, a) ==
    [i \in 1..a.jobs |->
        [NewJob EXCEPT !.ext_id = i,
                       !.priority = prios[i],
                       !.max_retries = a.max_retries,
                       !.enqueue_ts = t0 + i]]

(* 100 << (attempt - 1), computed in a 32-bit int *)
BackoffMs(attempt) == Shl(BACKOFF_BASE_MS, attempt - 1)

(* Dispatcher::maybe_backoff: the time the call sleeps (sleep_for returns   *)
(* at once for a non-positive duration)                                     *)
maybe_backoff(j) == IF j.attempt = 0 THEN 0 ELSE Max(0, BackoffMs(j.attempt))

(* run, lines 293-295: stamp the start of the attempt at time t *)
RunStart(j, t) ==
    [j EXCEPT !.start_ts = <<t>>,
              !.status = "RUNNING",
              !.wait_ms = ToInt(t - j.enqueue_ts)]

(* Variant: turnaround measured from the start of the attempt *)
RunEnd_FromStart(j, svc, t) ==
    [j EXCEPT !.service_ms = svc,
              !.end_ts = <<t>>,
              !.turnaround_ms = ToInt(t - j.start_ts[1])]

(* run, lines 297-303: service time svc has elapsed, the attempt ends at t *)
RunEnd(j, svc, t) ==
    [j EXCEPT !.service_ms = svc,
              !.end_ts = <<t>>,
              !.turnaround_ms = ToInt(t - j.enqueue_ts)]

(* run, line 306 *)
RunSuccess(j) == [j EXCEPT !.status = "SUCCESS"]

(* run, lines 315-316 *)
RunFailed(j) == [j EXCEPT !.status = "FAILED", !.fail_reason = "SIMULATED_FAILURE"]

(* Variant: attempt <= max_retries *)
CanRetry_OffByOne(j) == j.attempt <= j.max_retries

(* run, line 320 *)
CanRetry(j) == j.attempt < j.max_retries

(* Variant: aging without the cap *)
AgedPriority_NoCap(p) == p + 1

(* run, line 324: priority aging *)
AgedPriority(p) == Min(PRIO_MAX, p + 1)

(* Variant: the cap is used up as a count of remaining retries *)
RunRetry_DecrementsCap(j, t) ==
    [j EXCEPT !.attempt = j.attempt + 1,
              !.max_retries = j.max_retries - 1,
              !.status = "PENDING",
              !.priority = AgedPriority(j.priority),
              !.enqueue_ts = t]

(* Variant: the attempt counter is not advanced *)
RunRetry_NoIncrement(j, t) ==
    [j EXCEPT !.status = "PENDING",
              !.priority = AgedPriority(j.priority),
              !.enqueue_ts = t]

(* run, lines 321-325: the job as it is pushed back, stamped with the clock *)
(* reading t                                                                *)
RunRetry(j, t) ==
    [j EXCEPT !.attempt = j.attempt + 1,
              !.status = "PENDING",
              !.priority = AgedPriority(j.priority),
              !.enqueue_ts = t]

(* optional<int64_t>::value_or(0) *)
ValueOr0(ts) == IF ts = NoTs THEN 0 ELSE ts[1]

(* RunRecorder::record_job: the row inserted into table jobs *)
record_job(r, j) ==
    [run_id |-> r.run_id, ext_id |-> j.ext_id, priority |-> j.priority,
     attempt |-> j.attempt, status |-> j.status, fail_reason |-> j.fail_reason,
     enqueue_ts |-> j.enqueue_ts, start_ts |-> ValueOr0(j.start_ts),
     end_ts |-> ValueOr0(j.end_ts), wait_ms |-> j.wait_ms,
     service_ms |-> j.service_ms, turnaround_ms |-> j.turnaround_ms]

(* A double quotient n / d, kept exact as numerator and denominator *)
Ratio(n, d) == [num |-> n, den |-> d]

(* Variant: the division without the guard on total *)
Average_NoGuard(sum, total) == Ratio(sum, total)

(* run, lines 339-341: total ? (double)sum / total : 0.0 *)
Average(sum, total) == IF total # 0 THEN Ratio(sum, total) ELSE Ratio(0, 1)

(* run, lines 335-336 and 342: successes / max(0.001, seconds), jobs per    *)
(* second; the denominator is a time in seconds                             *)
Throughput(succ, elapsed) == Ratio(succ, MaxSeconds(elapsed))

(* RunRecorder::record_run_summary: the row inserted into table runs *)
record_run_summary(r, total, succ, fail, avg_wait, avg_service, avg_turn, throughput) ==
    [started_at |-> r.run_start_ms, finished_at |-> r.run_end_ms,
     total_jobs |-> total, success_jobs |-> succ, failed_jobs |-> fail,
     avg_wait_ms |-> avg_wait, avg_service_ms |-> avg_service,
     avg_turnaround_ms |-> avg_turn, throughput_jobs_per_s |-> throughput]

----------------------------------------------------------------------------
(* Database files *)

(* The files --db names in the model: one that does not exist yet, and one  *)
(* an earlier run has written to                                            *)
DbFiles == {"fresh.db", "used.db"}

(* The earlier run: one job, which succeeded at its first attempt after the *)
(* shortest service time; that run's clock read 0 when it began             *)
EarlierJob ==
    LET j == [NewJob EXCEPT !.ext_id = 1, !.priority = PRIO_MAX,
                            !.enqueue_ts = 1]
    IN  RunSuccess(RunEnd(RunStart(j, 0), MIN_SERVICE_MS, MIN_SERVICE_MS))

EarlierRec == [run_start_ms |-> 0, run_end_ms |-> MIN_SERVICE_MS, run_id |-> 0]

(* The rows the earlier run left in table jobs and in table runs *)
EarlierJobs == <<record_job(EarlierRec, EarlierJob)>>

EarlierRuns ==
    <<record_run_summary(EarlierRec, 1, 1, 0,
          Average(EarlierJob.wait_ms, 1), Average(EarlierJob.service_ms, 1),
          Average(EarlierJob.turnaround_ms, 1),
          Throughput(1, Elapsed(0, MIN_SERVICE_MS, 0)))>>

(* DB::create_schema, CREATE TABLE IF NOT EXISTS: the rows of table jobs    *)
(* when the program has opened the file                                     *)
StoredJobs(db) == IF db = "used.db" THEN EarlierJobs ELSE <<>>

(* The same for table runs *)
StoredRuns(db) == IF db = "used.db" THEN EarlierRuns ELSE <<>>

----------------------------------------------------------------------------
(* Initial states *)

(* Dispatcher constructed, the clock reading t *)
InitRunAt(t) ==
    /\ pc = "start"
    /\ now = t
    /\ pq = <<>>
    /\ cur = NoJob
    /\ completed = <<>>
    /\ successes = 0
    /\ failures = 0
    /\ total_wait = 0
    /\ total_service = 0
    /\ total_turn = 0
    /\ wall_start = t
    /\ lateSince = 0
    /\ rec = [run_start_ms |-> 0, run_end_ms |-> 0, run_id |-> 0]
    /\ jobsTable = StoredJobs(args.db)
    /\ runsTable = StoredRuns(args.db)

InitRun == InitRunAt(0)

(* parse_args and the environment of the run, within the bounds. In each of *)
(* the three cases any job count and retry cap. Here: service times at and  *)
(* above the floor, a new database file, every clock reading on time        *)
InitVaried ==
    /\ args \in [jobs : 0..MaxJobs, max_retries : 0..MaxRetries,
                 mean_ms : {LowMean}, stddev_ms : {LowStddev},
                 db : {"fresh.db"}]
    /\ faultsLeft = MaxFaults
    /\ lateLeft = 0
    /\ InitRun

(* A service-time distribution so low and narrow that every draw is floored *)
(* to MIN_SERVICE_MS, a new database file, and a clock reading that may be  *)
(* late                                                                     *)
InitLate ==
    /\ args \in [jobs : 0..MaxJobs, max_retries : 0..MaxRetries,
                 mean_ms : {0}, stddev_ms : {1}, db : {"fresh.db"}]
    /\ faultsLeft = LateFaults
    /\ lateLeft = MaxLate
    /\ InitRun

(* Every service draw floored, the database file of an earlier run, every   *)
(* clock reading on time                                                    *)
InitUsed ==
    /\ args \in [jobs : 0..MaxJobs, max_retries : 0..MaxRetries,
                 mean_ms : {0}, stddev_ms : {1}, db : {"used.db"}]
    /\ faultsLeft = MaxFaults
    /\ lateLeft = 0
    /\ InitRun

Init == InitVaried \/ InitLate \/ InitUsed

(* As InitLate with every reading on time, and with more failures allowed   *)
(* than the run can have attempts: every attempt may fail                   *)
InitLive ==
    /\ args \in [jobs : 0..MaxJobs, max_retries : 0..MaxRetries,
                 mean_ms : {0}, stddev_ms : {1}, db : {"fresh.db"}]
    /\ faultsLeft = args.jobs * (args.max_retries + 1) + 1
    /\ lateLeft = 0
    /\ InitRun

(* More jobs than the shortest service time has milliseconds; every service *)
(* draw is floored to MIN_SERVICE_MS                                        *)
InitWide ==
    /\ args = [jobs |-> MIN_SERVICE_MS + 1, max_retries |-> 1,
               mean_ms |-> 0, stddev_ms |-> 1, db |-> "fresh.db"]
    /\ faultsLeft = WideFaults
    /\ lateLeft = MaxLate
    /\ InitRun

(* No retries: up to one job more than in InitVaried, and every attempt may  *)
(* fail                                                                     *)
InitNoRetry ==
    /\ args \in [jobs : 0..(MaxJobs + 1), max_retries : {0},
                 mean_ms : {LowMean}, stddev_ms : {LowStddev},
                 db : {"fresh.db"}]
    /\ faultsLeft = MaxJobs + 1
    /\ lateLeft = 0
    /\ InitRun

(* One job with a retry cap so large that the backoff shift leaves the      *)
(* range of int; every attempt may fail and every service draw is floored   *)
(* to MIN_SERVICE_MS. The run lasts longer than INT_MAX ms: the clock       *)
(* reads -INT_MAX when it begins, so that every timestamp of the run is     *)
(* representable, and every reading is on time.                             *)
InitBackoff ==
    /\ args = [jobs |-> 1, max_retries |-> BackoffAttempts,
               mean_ms |-> 0, stddev_ms |-> 1, db |-> "fresh.db"]
    /\ faultsLeft = BackoffAttempts + 1
    /\ lateLeft = 0
    /\ InitRunAt(-INT_MAX)

----------------------------------------------------------------------------
(* Actions *)

(* run, lines 281-283: rec.begin(), seed_jobs(), wall_start: three clock    *)
(* readings; the first one is the value the clock has in the initial state  *)
BeginWith(draws) ==
    /\ pc = "start"
    /\ \E prios \in draws, d \in Lates :
          \E e \in LatesAfter(d) :
              /\ rec' = [rec EXCEPT !.run_start_ms = now]
              /\ pq' = seed_jobs(now + d, prios, args)
              /\ wall_start' = now + d + e
              /\ now' = now + d + e
              /\ lateLeft' = lateLeft - d - e
              /\ lateSince' = 0
    /\ pc' = "loop"
    /\ UNCHANGED <<args, cur, completed, successes, failures, total_wait,
                   total_service, total_turn, jobsTable, runsTable, faultsLeft>>

(* Every job draws its priority independently *)
Begin == BeginWith([1..args.jobs -> PriorityDraws])

(* All jobs happen to draw the same priority *)
BeginWide == BeginWith({[i \in 1..args.jobs |-> p] : p \in PriorityDraws})

(* run, lines 288-295: pop the top job, back off, read the clock and stamp  *)
(* the start                                                                *)
Dispatch ==
    /\ pc = "loop"
    /\ pq # <<>>
    /\ \E i \in 1..Len(pq), d \in Lates :
          /\ IsTop(pq, i)
          /\ LET j == pq[i]
                 t == now + maybe_backoff(j) + d
             IN  /\ pq' = RemoveAt(pq, i)
                 /\ now' = t
                 /\ cur' = RunStart(j, t)
                 /\ lateLeft' = lateLeft - d
                 /\ lateSince' = lateSince + d
    /\ pc' = "running"
    /\ UNCHANGED <<args, completed, successes, failures, total_wait,
                   total_service, total_turn, wall_start, rec, jobsTable,
                   runsTable, faultsLeft>>

(* run, lines 297-313: the attempt succeeds; the clock is read d late *)
CompleteSuccess(svc, d) ==
    LET t == now + svc + d
        j == RunSuccess(RunEnd(cur, svc, t))
    IN  /\ now' = t
        /\ lateLeft' = lateLeft - d
        /\ lateSince' = lateSince + d
        /\ successes' = successes + 1
        /\ total_wait' = total_wait + j.wait_ms
        /\ total_service' = total_service + j.service_ms
        /\ total_turn' = total_turn + j.turnaround_ms
        /\ jobsTable' = Append(jobsTable, record_job(rec, j))
        /\ completed' = Append(completed, j)
        /\ UNCHANGED <<pq, failures, faultsLeft>>

(* Variant: the else of line 327 is missing, so a retried job is also       *)
(* counted as failed and put into the completed set                         *)
CompleteRetry_AlsoCompletes(svc, d) ==
    LET t == now + svc + d
        j == RunFailed(RunEnd(cur, svc, t))
    IN  /\ CanRetry(j)
        /\ \E e \in LatesAfter(d) :
              /\ now' = t + e
              /\ lateLeft' = lateLeft - d - e
              /\ lateSince' = lateSince + d + e
              /\ pq' = Append(pq, RunRetry(j, t + e))
              /\ completed' = Append(completed, RunRetry(j, t + e))
        /\ jobsTable' = Append(jobsTable, record_job(rec, j))
        /\ failures' = failures + 1
        /\ faultsLeft' = faultsLeft - 1
        /\ UNCHANGED <<successes, total_wait, total_service, total_turn>>

(* run, lines 297-303, 315-326: the attempt fails and the job is pushed     *)
(* back; the clock is read for end_ts (d late) and again for the new        *)
(* enqueue_ts (e late)                                                      *)
CompleteRetry(svc, d) ==
    LET t == now + svc + d
        j == RunFailed(RunEnd(cur, svc, t))
    IN  /\ CanRetry(j)
        /\ \E e \in LatesAfter(d) :
              /\ now' = t + e
              /\ lateLeft' = lateLeft - d - e
              /\ lateSince' = lateSince + d + e
              /\ pq' = Append(pq, RunRetry(j, t + e))
        /\ jobsTable' = Append(jobsTable, record_job(rec, j))
        /\ faultsLeft' = faultsLeft - 1
        /\ UNCHANGED <<completed, successes, failures, total_wait,
                       total_service, total_turn>>

(* Variant: the terminal failure is not recorded *)
CompleteTerminal_NoRecord(svc, d) ==
    LET t == now + svc + d
        j == RunFailed(RunEnd(cur, svc, t))
    IN  /\ ~CanRetry(j)
        /\ now' = t
        /\ lateLeft' = lateLeft - d
        /\ lateSince' = lateSince + d
        /\ failures' = failures + 1
        /\ completed' = Append(completed, j)
        /\ faultsLeft' = faultsLeft - 1
        /\ UNCHANGED <<pq, jobsTable, successes, total_wait, total_service,
                       total_turn>>

(* run, lines 297-303, 315-318, 327-330: the attempt fails for good *)
CompleteTerminal(svc, d) ==
    LET t == now + svc + d
        j == RunFailed(RunEnd(cur, svc, t))
    IN  /\ ~CanRetry(j)
        /\ now' = t
        /\ lateLeft' = lateLeft - d
        /\ lateSince' = lateSince + d
        /\ jobsTable' = Append(jobsTable, record_job(rec, j))
        /\ failures' = failures + 1
        /\ completed' = Append(completed, j)
        /\ faultsLeft' = faultsLeft - 1
        /\ UNCHANGED <<pq, successes, total_wait, total_service, total_turn>>

Complete ==
    /\ pc = "running"
    /\ \E svc \in ServiceDraws(args.mean_ms, args.stddev_ms), fail \in FailDraws,
          d \in Lates :
          \/ ~fail /\ CompleteSuccess(svc, d)
          \/ fail /\ CompleteRetry(svc, d)
          \/ fail /\ CompleteTerminal(svc, d)
    /\ cur' = NoJob
    /\ pc' = "loop"
    /\ UNCHANGED <<args, wall_start, rec, runsTable>>

(* run, lines 334-345: the queue is empty; rec.end() reads the clock (d     *)
(* late), Clock::now() reads it again (e late, and frac microseconds        *)
(* further into its millisecond than wall_start was into its own); write    *)
(* the run summary                                                          *)
Finish ==
    /\ pc = "loop"
    /\ pq = <<>>
    /\ \E d \in Lates :
          \E e \in LatesAfter(d) :
              \E frac \in Fracs(lateSince + d + e) :
                  LET r == [rec EXCEPT !.run_end_ms = now + d]
                      total == successes + failures
                      seconds == Elapsed(wall_start, now + d + e, frac)
                      row == record_run_summary(r, total, successes,
                                 failures,
                                 Average(total_wait, total),
                                 Average(total_service, total),
                                 Average(total_turn, total),
                                 Throughput(successes, seconds))
                  IN  /\ runsTable' = Append(runsTable, row)
                      /\ rec' = [r EXCEPT !.run_id = Len(runsTable) + 1]
                      /\ now' = now + d + e
                      /\ lateLeft' = lateLeft - d - e
                      /\ lateSince' = lateSince + d + e
    /\ pc' = "done"
    /\ UNCHANGED <<args, pq, cur, completed, successes, failures,
                   total_wait, total_service, total_turn, wall_start,
                   jobsTable, faultsLeft>>

Next == Begin \/ Dispatch \/ Complete \/ Finish

Spec == Init /\ [][Next]_vars

NextWide == BeginWide \/ Dispatch \/ Complete \/ Finish

SpecWide == InitWide /\ [][NextWide]_vars

(* The loop is sequential code: whenever a step is possible it is taken *)
SpecLive == InitLive /\ [][Next]_vars /\ WF_vars(Next)

SpecNoRetry == InitNoRetry /\ [][Next]_vars

SpecBackoff == InitBackoff /\ [][Next]_vars

----------------------------------------------------------------------------
(* Vocabulary of the properties *)

Range(s) == {s[i] : i \in 1..Len(s)}

(* The rows this run has added to table jobs and to table runs *)
Rows ==
    IF StoredJobs(args.db) = <<>> THEN jobsTable
    ELSE SubSeq(jobsTable, Len(StoredJobs(args.db)) + 1, Len(jobsTable))

(* Their number, and the i-th of them *)
NRows == Len(jobsTable) - Len(StoredJobs(args.db))

Row(i) == jobsTable[Len(StoredJobs(args.db)) + i]

Summaries ==
    IF StoredRuns(args.db) = <<>> THEN runsTable
    ELSE SubSeq(runsTable, Len(StoredRuns(args.db)) + 1, Len(runsTable))

IsJob(j) == j # NoJob

(* Every job the dispatcher holds: pending, being executed, completed *)
Held == Range(pq) \cup (IF IsJob(cur) THEN {cur} ELSE {}) \cup Range(completed)

Ids == 1..args.jobs

RowsOf(id) == {i \in 1..NRows : Row(i).ext_id = id}

CountIn(s, id) == Cardinality({i \in 1..Len(s) : s[i].ext_id = id})

RECURSIVE SumField(_, _)
SumField(s, fld) == IF s = <<>> THEN 0 ELSE Head(s)[fld] + SumField(Tail(s), fld)

HasRow(status, attempts) ==
    \E i \in 1..NRows :
        Row(i).status = status /\ Row(i).attempt \in attempts

----------------------------------------------------------------------------
(* C1: every held job has attempt in [0, maxRetries]; a job whose attempt   *)
(* numbered maxRetries failed is in the completed set, as FAILED, and is    *)
(* neither pending nor being executed in any later state.                   *)
C1_AttemptBounded ==
    /\ \A j \in Held : 0 <= j.attempt /\ j.attempt <= args.max_retries
    /\ \A i \in 1..NRows :
          LET r == Row(i) IN
          (r.status = "FAILED" /\ r.attempt = args.max_retries) =>
              /\ \E c \in Range(completed) :
                    c.ext_id = r.ext_id /\ c.status = "FAILED"
              /\ \A q \in Range(pq) : q.ext_id # r.ext_id
              /\ cur.ext_id # r.ext_id

(* A job has exhausted its retries after failing at least once before, and  *)
(* the run went on                                                          *)
C1_Witness ==
    /\ args.max_retries >= 1
    /\ HasRow("FAILED", {args.max_retries})
    /\ \E c \in Range(completed) : c.status = "FAILED" /\ c.attempt = args.max_retries
    /\ pc = "done"

(* C2: the job popped has the highest priority among the jobs that were     *)
(* pending, and among those of that priority the smallest enqueue_ts.       *)
C2_PopIsBest ==
    pc = "running" =>
        \A k \in Range(pq) :
            \/ k.priority < cur.priority
            \/ k.priority = cur.priority /\ k.enqueue_ts >= cur.enqueue_ts

(* A pop, made after seed pushes, a pop and a retry re-push, that leaves a   *)
(* re-pushed job of the same priority behind                                *)
C2_Witness ==
    /\ pc = "running"
    /\ cur.attempt = 0
    /\ \E k \in Range(pq) :
          k.attempt > 0 /\ k.priority = cur.priority /\ k.enqueue_ts > cur.enqueue_ts

(* C3: at run end the three sums are the sums over the completed set (the   *)
(* final attempt of every terminal job, SUCCESS and FAILED alike) and each  *)
(* average is its sum divided by totalJobs.                                 *)
C3_SumsOverTerminal ==
    pc = "done" =>
        /\ total_wait = SumField(completed, "wait_ms")
        /\ total_service = SumField(completed, "service_ms")
        /\ total_turn = SumField(completed, "turnaround_ms")
        /\ LET row == Summaries[Len(Summaries)]
               n == row.total_jobs
           IN  n # 0 =>
                 /\ row.avg_wait_ms = Ratio(SumField(completed, "wait_ms"), n)
                 /\ row.avg_service_ms = Ratio(SumField(completed, "service_ms"), n)
                 /\ row.avg_turnaround_ms = Ratio(SumField(completed, "turnaround_ms"), n)

(* C4: when the loop has finished, totalJobs = successes + terminalFailures *)
(* = the configured job count; successes and failures count the completed   *)
(* jobs by status, and a failed attempt that was retried is not counted.    *)
C4_TotalIsJobCount ==
    pc = "done" =>
        LET row == Summaries[Len(Summaries)] IN
        /\ row.total_jobs = row.success_jobs + row.failed_jobs
        /\ row.total_jobs = args.jobs
        /\ row.success_jobs =
              Cardinality({id \in Ids : \E c \in Range(completed) :
                              c.ext_id = id /\ c.status = "SUCCESS"})
        /\ row.failed_jobs =
              Cardinality({id \in Ids : \E c \in Range(completed) :
                              c.ext_id = id /\ c.status = "FAILED"})
        /\ row.failed_jobs =
              Cardinality({i \in 1..NRows :
                              /\ Row(i).status = "FAILED"
                              /\ Row(i).attempt = args.max_retries})

(* A finished run with a success, a terminal failure and a retried attempt *)
C4_Witness ==
    /\ pc = "done"
    /\ successes >= 1
    /\ failures >= 1
    /\ NRows > args.jobs + 1

(* C5: an id is appended to the completed set at most once, and exactly     *)
(* once by run end; its entry is SUCCESS, or FAILED with retries exhausted; *)
(* from then on the id is neither pending nor executed, its last recorded   *)
(* attempt is the terminal one, and the entry never changes.                *)
C5_Inv ==
    /\ \A id \in Ids : CountIn(completed, id) <= 1
    /\ pc = "done" => \A id \in Ids : CountIn(completed, id) = 1
    /\ \A c \in Range(completed) :
          /\ c.ext_id \in Ids
          /\ \/ c.status = "SUCCESS"
             \/ c.status = "FAILED" /\ c.attempt = c.max_retries
          /\ \A q \in Range(pq) : q.ext_id # c.ext_id
          /\ cur.ext_id # c.ext_id
          /\ \A i \in RowsOf(c.ext_id) : Row(i).attempt <= c.attempt
          /\ \E i \in RowsOf(c.ext_id) :
                Row(i).attempt = c.attempt /\ Row(i).status = c.status

C5_Step ==
    /\ Len(completed') >= Len(completed)
    /\ \A i \in 1..Len(completed) : completed'[i] = completed[i]

C5_TerminalOnce == [](C5_Inv) /\ [][C5_Step]_vars

(* One job completed after a retry while another one is still to run *)
C5_Witness ==
    /\ \E c \in Range(completed) : c.attempt >= 1
    /\ pc = "running"
    /\ Len(completed) >= 1

(* C6: the loop terminates: eventually the run is over with the queue empty *)
(* and every seeded job completed, and never more than                      *)
(* jobs * (maxRetries + 1) attempts have been executed.                     *)
C6_Finished ==
    /\ pc = "done"
    /\ pq = <<>>
    /\ ~IsJob(cur)
    /\ \A id \in Ids : \E c \in Range(completed) : c.ext_id = id

C6_Terminates ==
    /\ <>[]C6_Finished
    /\ [](NRows <= args.jobs * (args.max_retries + 1))

(* A run that ended after every job used every attempt it had *)
C6_Witness ==
    /\ C6_Finished
    /\ args.jobs >= 1
    /\ args.max_retries >= 1
    /\ NRows = args.jobs * (args.max_retries + 1)

(* C7: a re-enqueued job has priority min(10, p + 1), p being the priority  *)
(* of its failed attempt; priorities stay in [1, 10] and never decrease     *)
(* from one recorded attempt of a job to the next.                          *)
C7_Aging ==
    /\ \A j \in Held : PRIO_MIN <= j.priority /\ j.priority <= PRIO_MAX
    /\ \A j \in Range(pq) :
          j.attempt >= 1 =>
              \E i \in RowsOf(j.ext_id) :
                  /\ Row(i).attempt = j.attempt - 1
                  /\ j.priority = (IF Row(i).priority + 1 > PRIO_MAX
                                      THEN PRIO_MAX
                                      ELSE Row(i).priority + 1)
    /\ \A i, k \in 1..NRows :
          (i < k /\ Row(i).ext_id = Row(k).ext_id) =>
              Row(i).priority <= Row(k).priority

(* A job seeded one below the cap is pushed back for the second time: its   *)
(* priority rose by one and then stayed at the cap                          *)
C7_Witness ==
    \E j \in Range(pq) :
        /\ j.attempt = 2
        /\ j.priority = PRIO_MAX
        /\ \E i \in RowsOf(j.ext_id) :
              Row(i).attempt = 0 /\ Row(i).priority = PRIO_MAX - 1

(* C8: the job popped was pushed before every other pending job of its      *)
(* priority (FIFO within a priority band); pq lists the pending jobs in the *)
(* order they were pushed.                                                  *)
C8_Step ==
    (pc = "loop" /\ pc' = "running") =>
        \E i \in 1..Len(pq) :
            /\ pq[i].ext_id = cur'.ext_id
            /\ \A k \in 1..(i - 1) : pq[k].priority # pq[i].priority

C8_FifoInBand == [][C8_Step]_vars

(* C9: every recorded attempt has turnaround_ms = end_ts - enqueue_ts, and  *)
(* the enqueue_ts recorded is the one of that attempt: the seeding stamp    *)
(* t0 + ext_id for attempt 0 (t0 read between run_start_ms and wall_start), *)
(* and for a retry the stamp of the re-enqueue, read after the end of the   *)
(* previous attempt of the job and before its own start.                    *)
C9_Turnaround ==
    /\ \E t0 \in rec.run_start_ms..wall_start :
          \A i \in 1..NRows :
              Row(i).attempt = 0 => Row(i).enqueue_ts = t0 + Row(i).ext_id
    /\ \A i \in 1..NRows :
          LET r == Row(i) IN
          /\ r.turnaround_ms = r.end_ts - r.enqueue_ts
          /\ r.attempt >= 1 =>
                \E k \in 1..(i - 1) :
                    /\ Row(k).ext_id = r.ext_id
                    /\ Row(k).attempt = r.attempt - 1
                    /\ Row(k).end_ts <= r.enqueue_ts
                    /\ r.enqueue_ts <= Row(k).end_ts + MaxLate
                    /\ r.enqueue_ts <= r.start_ts

(* A retried failure, a terminal failure and a success after a retry are    *)
(* all on record                                                            *)
C9_Witness ==
    /\ args.max_retries >= 1
    /\ HasRow("FAILED", 0..(args.max_retries - 1))
    /\ HasRow("FAILED", {args.max_retries})
    /\ HasRow("SUCCESS", 1..args.max_retries)

(* C10: a recorded attempt has a non-empty fail_reason exactly if it failed *)
C10_FailReasonIffFailed ==
    \A i \in 1..NRows :
        (Row(i).fail_reason # "") <=> (Row(i).status = "FAILED")

(* C11: one row of table jobs per executed attempt, whatever its outcome:   *)
(* the rows number the attempts the held jobs have gone through; one row of *)
(* table runs once the run is over, none before, written with the queue     *)
(* empty and after the last attempt ended.                                  *)
AttemptsDone(j) == IF j.status \in {"SUCCESS", "FAILED"} THEN j.attempt + 1 ELSE j.attempt

RECURSIVE SumAttempts(_)
SumAttempts(s) == IF s = <<>> THEN 0 ELSE AttemptsDone(Head(s)) + SumAttempts(Tail(s))

C11_OneRecordPerAttempt ==
    /\ NRows = SumAttempts(pq) + SumAttempts(completed)
                        + (IF IsJob(cur) THEN cur.attempt ELSE 0)
    /\ \A i, k \in 1..NRows :
          (Row(i).ext_id = Row(k).ext_id
              /\ Row(i).attempt = Row(k).attempt) => i = k
    /\ Len(Summaries) = (IF pc = "done" THEN 1 ELSE 0)
    /\ pc = "done" =>
          /\ pq = <<>>
          /\ \A i \in 1..NRows :
                Row(i).end_ts <= Summaries[1].finished_at

(* A finished run with a success, a retried failure and a terminal failure, *)
(* on the database file of an earlier run                                   *)
C11_Witness ==
    /\ pc = "done"
    /\ Len(Summaries) = 1
    /\ Len(runsTable) > Len(Summaries)
    /\ HasRow("SUCCESS", 0..args.max_retries)
    /\ HasRow("FAILED", {args.max_retries})
    /\ args.max_retries >= 1
    /\ HasRow("FAILED", 0..(args.max_retries - 1))

(* C12: the dispatch of a job at attempt a >= 1 waits exactly               *)
(* 100 * 2^(a-1) ms, that of a job at attempt 0 does not wait: the clock    *)
(* advances by that much from the pop to the start stamp, apart from what   *)
(* the reading is late by.                                                  *)
RECURSIVE Pow2(_)
Pow2(n) == IF n <= 0 THEN 1 ELSE 2 * Pow2(n - 1)

C12_Step ==
    (pc = "loop" /\ pc' = "running") =>
        LET a == cur'.attempt
            d == (now' - now) - (lateLeft - lateLeft')
        IN  /\ a = 0 => d = 0
            /\ a >= 1 => /\ d % BACKOFF_BASE_MS = 0
                         /\ d \div BACKOFF_BASE_MS = Pow2(a - 1)

C12_BackoffExact == [][C12_Step]_vars

(* C13: a run configured with no jobs records no attempt, and its summary   *)
(* has zero counters, zero averages and zero throughput; no quotient of any *)
(* summary has a zero denominator.                                          *)
IsZero(q) == q.num = 0 /\ q.den # 0

Positive(e) == e.s > 0 \/ (e.s = 0 /\ e.us > 0)

C13_EmptyRun ==
    /\ args.jobs = 0 => Rows = <<>> /\ ~IsJob(cur) /\ pq = <<>>
    /\ \A i \in 1..Len(Summaries) :
          LET row == Summaries[i] IN
          /\ row.avg_wait_ms.den # 0
          /\ row.avg_service_ms.den # 0
          /\ row.avg_turnaround_ms.den # 0
          /\ Positive(row.throughput_jobs_per_s.den)
          /\ args.jobs = 0 =>
                /\ row.total_jobs = 0
                /\ row.success_jobs = 0
                /\ row.failed_jobs = 0
                /\ IsZero(row.avg_wait_ms)
                /\ IsZero(row.avg_service_ms)
                /\ IsZero(row.avg_turnaround_ms)
                /\ row.throughput_jobs_per_s.num = 0

(* The summary of a run with no jobs has been written *)
C13_Witness ==
    /\ args.jobs = 0
    /\ pc = "done"
    /\ Len(Summaries) = 1

(* C14: with the same configuration and the same draws two runs agree on    *)
(* the dispatch order, on every timestamp relative to the run start and on  *)
(* the summary. The recorded rows hold the draws (priority, service time,   *)
(* outcome), and the run in which no time passes outside the sleeps has     *)
(* every attempt start at the sum of the delays drawn before it; so the     *)
(* claim requires that of every run: each attempt starts, relative to the   *)
(* run start, after exactly the backoffs and service times incurred so far, *)
(* and ends one service time later.                                         *)
RowDelay(r) == maybe_backoff(r) + r.service_ms

RECURSIVE SumDelays(_)
SumDelays(s) == IF s = <<>> THEN 0 ELSE RowDelay(Head(s)) + SumDelays(Tail(s))

C14_SameDrawsSameRun ==
    \A i \in 1..NRows :
        LET r == Row(i) IN
        /\ r.start_ts - rec.run_start_ms
              = SumDelays(SubSeq(Rows, 1, i - 1)) + maybe_backoff(r)
        /\ r.end_ts = r.start_ts + r.service_ms

(* C15: once the jobs are seeded every external id has exactly one owner:   *)
(* it is once in the queue, or is the job being executed, or is once in the *)
(* completed set, and never two of these.                                   *)
Owners(id) ==
    CountIn(pq, id) + CountIn(completed, id) + (IF cur.ext_id = id THEN 1 ELSE 0)

C15_OneOwner ==
    /\ \A j \in Held : j.ext_id \in Ids
    /\ pc # "start" => \A id \in Ids : Owners(id) = 1
    /\ pc = "running" <=> IsJob(cur)

(* A retried job is being executed while another job is completed *)
C15_Witness ==
    /\ pc = "running"
    /\ cur.attempt >= 1
    /\ Len(completed) >= 1

(* C16: the rows of an id carry the attempts 0, 1, ..., k in this order,    *)
(* all but the last are FAILED, the last one of a completed id has its      *)
(* terminal status, and the priority of each row follows from the one       *)
(* before by step(p).                                                       *)
RowsInOrder(step(_)) ==
    \A id \in Ids :
        LET idx == RowsOf(id) IN
        /\ \A i \in idx :
              /\ Row(i).attempt = Cardinality({k \in idx : k < i})
              /\ (\E k \in idx : k > i) => Row(i).status = "FAILED"
              /\ \A k \in idx :
                    Row(k).attempt = Row(i).attempt + 1 =>
                        Row(k).priority = step(Row(i).priority)
        /\ \A c \in Range(completed) :
              c.ext_id = id =>
                  \E i \in idx :
                      /\ \A k \in idx : k <= i
                      /\ Row(i).status = c.status
                      /\ Row(i).attempt = c.attempt
        /\ pc = "done" => idx # {}

PlusOne(p) == p + 1

PlusOneCapped(p) == IF p + 1 > PRIO_MAX THEN PRIO_MAX ELSE p + 1

(* C16 as claimed: the priority is higher by 1 in each row *)
C16_PriorityPlusOne == RowsInOrder(PlusOne)

(* C16 as amended: the priority is min(10, previous + 1) in each row *)
C16_RecordsPerJob == RowsInOrder(PlusOneCapped)

(* maxRetries = 2 and a job that failed attempts 0 and 1 and succeeded on   *)
(* attempt 2: three rows, priorities rising by one, the last one SUCCESS    *)
C16_Witness ==
    /\ pc = "done"
    /\ args.max_retries = 2
    /\ \E id \in Ids :
          /\ Cardinality(RowsOf(id)) = 3
          /\ \E i, k, l \in RowsOf(id) :
                /\ i < k /\ k < l
                /\ Row(i).status = "FAILED"
                /\ Row(k).status = "FAILED"
                /\ Row(l).status = "SUCCESS"
                /\ Row(k).priority = Row(i).priority + 1
                /\ Row(l).priority = Row(k).priority + 1

(* C17: with maxRetries = 0 no job is pushed back: every row is an attempt  *)
(* 0, a failed one is terminal at once, and each executed attempt takes one *)
(* job out of the queue for good, so the queue is empty after exactly as    *)
(* many attempts as there are jobs.                                         *)
C17_NoRetry ==
    args.max_retries = 0 =>
        /\ \A j \in Held : j.attempt = 0
        /\ \A i \in 1..NRows :
              /\ Row(i).attempt = 0
              /\ Row(i).status = "FAILED" =>
                    \E c \in Range(completed) :
                        c.ext_id = Row(i).ext_id /\ c.status = "FAILED"
        /\ pc # "start" =>
              Len(pq) + (IF IsJob(cur) THEN 1 ELSE 0) + NRows = args.jobs
        /\ NRows = Len(completed)
        /\ pc = "done" => pq = <<>> /\ NRows = args.jobs

(* jobs = 3, maxRetries = 0: the queue is empty after 3 attempts, one of    *)
(* which failed                                                             *)
C17_Witness ==
    /\ args.max_retries = 0
    /\ args.jobs = 3
    /\ pq = <<>>
    /\ pc = "loop"
    /\ NRows = 3
    /\ HasRow("FAILED", {0})

(* C18: every row of table jobs carries the id of the row of table runs     *)
(* written for its run.                                                     *)
C18_RowsCarryRunId ==
    pc = "done" =>
        \A i \in 1..NRows : Row(i).run_id = rec.run_id

(* C19: every dispatched job has start_ts >= enqueue_ts, i.e. wait_ms >= 0  *)
C19_WaitNonNegative ==
    /\ IsJob(cur) => cur.wait_ms >= 0
    /\ \A i \in 1..NRows :
          /\ Row(i).wait_ms >= 0
          /\ Row(i).start_ts >= Row(i).enqueue_ts

(* C20: a pushed-back job differs from its failed attempt as recorded only  *)
(* in attempt (+1), status (PENDING), priority and enqueue_ts; the held     *)
(* jobs carry the distinct ids 1..N and the configured retry cap.           *)
C20_RetryFrame ==
    /\ \A j \in Held : j.max_retries = args.max_retries
    /\ pc # "start" =>
          /\ {j.ext_id : j \in Held} = Ids
          /\ Len(pq) + Len(completed) + (IF IsJob(cur) THEN 1 ELSE 0) = args.jobs
    /\ \A q \in Range(pq) :
          q.attempt >= 1 =>
              /\ q.status = "PENDING"
              /\ \E i \in RowsOf(q.ext_id) :
                    LET r == Row(i) IN
                    /\ r.attempt = q.attempt - 1
                    /\ r.status = "FAILED"
                    /\ q.start_ts = <<r.start_ts>>
                    /\ q.end_ts = <<r.end_ts>>
                    /\ q.wait_ms = r.wait_ms
                    /\ q.service_ms = r.service_ms
                    /\ q.turnaround_ms = r.turnaround_ms
                    /\ q.fail_reason = r.fail_reason

(* Two jobs are held and one of them waits after its second failure *)
C20_Witness ==
    /\ args.jobs = 2
    /\ \E q \in Range(pq) : q.attempt = 2
    /\ Len(completed) = 1

====
